---- MODULE Spec2Model ----
(***************************************************************************)
(* debugbunny: the per-target scheduler cell (scrape_target.rs), the       *)
(* timeout wrapper, the supervisor's driver loop (debugbunny.rs) and the   *)
(* log writer (result_processor.rs), as a timed state machine; further     *)
(* the chunked byte strings of chunkify.rs, the cancel signal's watch      *)
(* channel and the sweeps of unscheduled calls over all targets.           *)
(*                                                                         *)
(* The clock advances in ticks of 2^30 ns.  A tick is the granularity of   *)
(* the runtime: a task that has been woken (lock granted, timer elapsed,   *)
(* signal visible, inner future ready) is polled before the clock moves,   *)
(* and code between two awaits runs within one tick.  Instants and         *)
(* durations are <<ticks, nanos>> values, so that an interval of one       *)
(* nanosecond and the 32-bit narrowing at 2^32 ns = 4 ticks are both       *)
(* representable with small numbers.                                       *)
(***************************************************************************)
EXTENDS Integers, Sequences, FiniteSets, TLC

VARIABLES
    now,        \* the clock, in ticks
    cfg,        \* the target's configuration and wiring
    cancelled,  \* the watch channel has been sent to
    fresh,      \* history: the first send happened within the current tick
    wakeup,     \* SyncedService.wakeup
    holder,     \* owner of the cell's tokio Mutex
    waitq,      \* FIFO of tasks waiting for the cell's Mutex
    pc,         \* where each caller's future stands
    sleepUntil, \* the wakeup a scheduled caller captured before it sleeps
    callStart,  \* tick at which a caller's inner call was created
    inner,      \* state of the wrapped action's future of a caller
    innerAt,    \* history: tick at which the action's future became ready
    invoked,    \* the caller's current call has invoked the inner action
    res,        \* the result the caller's last call returned
    last,       \* history: the completion made by the latest step, if it was one
    uEnd,       \* history: tick of the latest unscheduled completion, -1 before
    sEnd,       \* history: tick of the first return of a scheduled call; -1
                \* before it, -2 from the second return on
    sup,        \* the supervisor: run, joining, shutdown
    nth,        \* history: scheduled calls started, all of them on schedule;
                \* -1 once a call was unscheduled, requested late or slow
    reqAt,      \* history: tick at which a caller requested its pending
                \* scheduled call, kept while the run is on schedule
    count,      \* Counter.0 of the wrapped action, -1 if it does not count
    val,        \* the count the invocation in flight has taken, -1 if none
    late,       \* history: the unscheduled callers whose call in progress
                \* began with the cancel signal fired
    sink,       \* the records the wrapped writer has received, in order
    wHolder,    \* owner of the LogOutputWriter's tokio Mutex
    wWaitq,     \* FIFO of process() calls waiting for that Mutex
    wpc,        \* where each emitter's process() future stands
    wCall,      \* the number of the call an emitter is processing
    wLeft,      \* chunk records the emitter's call has still to write
    wRes,       \* the representation (meta, chunks) of the emitter's result
    nCalls,     \* process() calls made so far
    underLock,  \* history: the kinds of work done by owners of the sink's Mutex
    cks,        \* the Chunks value at hand, or the error of its constructor
    origin,     \* how it was made, and from which bytes or chunk list
    rd,         \* the ChunksRead over it: offset, bytes read so far, status
    version,    \* the watch channel's version: the sends made on it
    closed,     \* the channel's Sender has been dropped
    seen,       \* the version each stored Receiver has marked as seen
    clone,      \* the version the Receiver cloned for a call in flight has
                \* marked as seen, -1 without such a call
    saw,        \* history: the observation made by the latest step, if any
    times,      \* history: observations of the fired signal, per observer
    swp,        \* where each unscheduled_call() stands: spawning or joining
                \* its tasks, and at which position
    task,       \* where each task of a sweep stands
    owner,      \* the owner of each target's cell: a task, its driver or None
    queue,      \* the waiters for each target's cell, in arrival order
    dpc,        \* where each target's driver stands
    ucalls,     \* history: unscheduled calls completed, per sweep and target
    passed,     \* history: what each task has passed to the processor
    writer,     \* the owner of the processor's Mutex among the tasks and the
                \* drivers, or None
    wqueue      \* the waiters for the processor's Mutex, in arrival order

cellVars == <<now, cfg, cancelled, fresh, wakeup, holder, waitq, pc, sleepUntil,
              callStart, inner, innerAt, invoked, res, last, uEnd, sEnd,
              sup, nth, reqAt, count, val, late>>

schedVars == <<nth, reqAt>>

countVars == <<count, val>>

sinkVars == <<sink, wHolder, wWaitq, wpc, wCall, wLeft, wRes, nCalls, underLock>>

chunkVars == <<cks, origin, rd>>

watchVars == <<version, closed, seen, clone, saw, times>>

sweepVars == <<swp, task, owner, queue, dpc, ucalls, passed, writer, wqueue>>

cellLocks == <<owner, queue>>

sinkLock == <<writer, wqueue>>

vars == <<cellVars, sinkVars, chunkVars, watchVars, sweepVars>>

----------------------------------------------------------------------------
(* Bounds *)

MaxTime == 4

\* process() calls in a run, and chunk records of one call
MaxCalls == 3

MaxChunks == 2

\* Bytes in a buffer, the chunk size, chunks in a list handed to
\* from_chunks, and the length of the buffer handed to read()
MaxLen == 3

MaxChunkSize == 2

MaxParts == 3

MaxBuf == 2

\* Sends on the cancel channel, and the observations of the fired signal
\* that are counted per observer
MaxSends == 2

MaxSeen == 2

----------------------------------------------------------------------------
(* Instants and durations: Duration::as_nanos and the arithmetic on it *)

TickNanos == 2^30

\* 2^32 ns, the modulus of the narrowing to u32, in ticks
U32Ticks == 2^(32 - 30)

Dur(t, n) == [t |-> t, n |-> n]

Zero == Dur(0, 0)

One == Dur(0, 1)

At(t) == Dur(t, 0)

Norm(t, n) == Dur(t + (n \div TickNanos), n % TickNanos)

Add(a, b) == Norm(a.t + b.t, a.n + b.n)

\* a - b for a >= b
Sub(a, b) ==
    IF a.n >= b.n THEN Dur(a.t - b.t, a.n - b.n)
    ELSE Dur(a.t - b.t - 1, (a.n + TickNanos) - b.n)

Less(a, b) == a.t < b.t \/ (a.t = b.t /\ a.n < b.n)

Leq(a, b) == a.t < b.t \/ (a.t = b.t /\ a.n <= b.n)

\* x / d on nanoseconds (integer division), for a divisor of whole ticks or a
\* divisor of less than a tick that divides the tick
Div(x, d) ==
    IF d.n = 0
    THEN Norm(0, x.t \div d.t)
    ELSE Dur(x.t \div d.n, ((x.t % d.n) * (TickNanos \div d.n)) + (x.n \div d.n))

\* `as u32`: the value modulo 2^32
AsU32(x) == Dur(x.t % U32Ticks, x.n)

\* Duration * u32, for the same durations as Div
Mul(d, f) ==
    IF d.n = 0
    THEN Dur(d.t * ((f.t * TickNanos) + f.n), 0)
    ELSE Dur((d.n * f.t) + (f.n \div (TickNanos \div d.n)),
             d.n * (f.n % (TickNanos \div d.n)))

----------------------------------------------------------------------------
(* The configurations and the callers *)

\* ScrapeTargetConfig.interval: one nanosecond (the smallest positive
\* Duration) and two ticks
Intervals == {One, Dur(2, 0)}

\* The intervals ScrapeTargetBuilder::build and ScrapeTarget::new take: build
\* checks that an interval was set, nothing looks at its value
Durations == Intervals \cup {Zero}

\* ScrapeTargetConfig.timeout, in ticks
Timeouts == {1, 2}

\* "debugbunny": Timeout::new_with_cancel inside ScrapeTarget::new_with_cancel,
\* driven by DebugBunny's loop.  "plain": Timeout::new inside
\* ScrapeTarget::new, called directly (the unit test, TargetCollection).
Wirings == {"debugbunny", "plain"}

Driver == "drv"

SchedCallers == {"drv", "s1"}

UnschedCallers == {"u1", "u2"}

Callers == SchedCallers \cup UnschedCallers

\* The unscheduled calls a run makes on the cell: one sweep, or two that
\* overlap
Sweeps == {{"u1"}, UnschedCallers}

None == "none"

\* Where a caller stands once its call has returned: the driver hands the
\* result to the processor, a direct caller of the scheduled handle may call
\* again, a task of an unscheduled sweep is done
Returned(p) ==
    IF p = Driver THEN "process" ELSE IF p \in SchedCallers THEN "idle" ELSE "done"

\* The tasks that emit through clones of one LogOutputWriter
Writers == {"w1", "w2", "w3"}

\* No scheduled call is waiting to start
NoRequest == [p \in SchedCallers |-> -1]

\* No Chunks value, its origin and its reader
NoChunks == [form |-> None]

NoOrigin == [how |-> None]

NoReader == [st |-> None, offset |-> 0, out |-> <<>>]

\* An emitter that is not inside process()
NoResult == [outcome |-> None, sha |-> None, chunks |-> FALSE, id |-> None]

\* Timeout.cancel / ScheduledScrapeTarget.cancel is Some
HasCancel == cfg.wiring = "debugbunny"

\* The holders of a Receiver: the driver's loop predicate, the scheduled
\* handle (its sleep) and the timeout wrapper (its race)
Observers == {"loop", "sleep", "race"}

\* The observers that clone their Receiver for each call
Cloners == {"sleep", "race"}

NoObservation == [who |-> None, out |-> None]

\* DebugBunny.configs, and the targets start_scraping has built from them
Configs == <<"c1", "c2">>

Targets == {"t1", "t2"}

\* The target launch_scheduled_task builds for a config
TargetOf(c) == IF c = "c1" THEN "t1" ELSE "t2"

\* DebugBunny.unscheduled_targets: the unscheduled handles, unzipped from the
\* map over the configs and so in their order
UnscheduledTargets == [i \in 1..Len(Configs) |-> TargetOf(Configs[i])]

\* The calls of unscheduled_call() that may overlap
SweepIds == {"x", "y"}

\* The tasks unscheduled_call() spawns: one per position of the zip
TaskIds == SweepIds \X (1..Len(Configs))

\* The owner of a free cell, and the driver's task of a target
NoTask == <<None, 0>>

DriverOf(t) == <<t, 0>>

NoLast ==
    [kind |-> "none", who |-> None, start |-> -1, at |-> -1, res |-> None,
     panic |-> FALSE, inner |-> None, innerAt |-> -1, fired |-> FALSE,
     fresh |-> FALSE, w0 |-> Zero, w1 |-> Zero, prev |-> -1, val |-> -1,
     late |-> FALSE]

----------------------------------------------------------------------------
(* SyncedService *)

\* ((delta.as_nanos() + ival_nanos) / ival_nanos) as u32
Factor(w, ival, n) == AsU32(Div(Add(Sub(n, w), ival), ival))

\* ival_nanos is 0: the division of set_next_wake_up_time panics
DivByZero(ival) == ival = Zero

\* assert!(f >= 1) fails
AssertFails(w, ival, n) == (~Less(n, w)) /\ Factor(w, ival, n) = Zero

\* Mutant: a due schedule restarts one interval after the completion
SetNextWakeUpTime_FromNow(w, ival, n) ==
    IF Less(n, w) THEN w ELSE Add(n, ival)

SetNextWakeUpTime(w, ival, n) ==
    IF Less(n, w) THEN w ELSE Add(w, Mul(ival, Factor(w, ival, n)))

\* Mutant: the schedule is advanced but not reset to the current instant
ResetInterval_AdvanceOnly(w, ival, n) == SetNextWakeUpTime(w, ival, n)

\* Mutant: the wakeup is set to the current instant and not advanced
ResetInterval_NowOnly(w, ival, n) == n

ResetInterval(w, ival, n) == SetNextWakeUpTime(n, ival, n)

\* Mutant: the cell is due only after its wakeup
IsDue_Strict(w, n) == Less(w, n)

\* Mutant: the cell is always due
IsDue_Always(w, n) == TRUE

IsDue(w, n) == Leq(w, n)

\* The history of returns after one more return at tick t
NextReturn(e, t) == IF e = -1 THEN t ELSE -2

\* W0 + n * interval, W0 being the construction instant, tick 0
Slot(ival, n) == Mul(ival, Dur(0, n))

\* The first tick of the clock at or after an instant
FirstTickAt(w) == IF w.n = 0 THEN w.t ELSE w.t + 1

----------------------------------------------------------------------------
(* Timeout::call and the sleep of ScheduledScrapeTarget::call *)

\* tokio::time::timeout's deadline has passed
\* Mutant: the deadline passes one tick late
Elapsed_Late(start, timeout, t) == t > start + timeout

Elapsed(start, timeout, t) == t >= start + timeout

\* Mutant: the cancel branch reports a timeout
TimeoutOutcomes_CancelAsTimeout(i, elapsed, fired) ==
    (IF i = "ok" THEN {"Ok"}
     ELSE IF i = "err" THEN {"Err"}
     ELSE IF elapsed THEN {"Timeout"} ELSE {})
    \cup (IF fired THEN {"Timeout"} ELSE {})

\* Mutant: the race has no cancel branch
TimeoutOutcomes_NoCancel(i, elapsed, fired) ==
    IF i = "ok" THEN {"Ok"}
    ELSE IF i = "err" THEN {"Err"}
    ELSE IF elapsed THEN {"Timeout"} ELSE {}

\* What the select! of Timeout::call may resolve to at a poll: the timeout
\* future polls the inner future before the deadline; select! polls its ready
\* branches in random order.
TimeoutOutcomes(i, elapsed, fired) ==
    (IF i = "ok" THEN {"Ok"}
     ELSE IF i = "err" THEN {"Err"}
     ELSE IF elapsed THEN {"Timeout"} ELSE {})
    \cup (IF fired THEN {"Cancelled"} ELSE {})

\* Mutant: the cancel branch of the sleep continues the loop
SleepOutcomes_CancelContinues(elapsed, hasCancel, fired) ==
    IF elapsed \/ (hasCancel /\ fired) THEN {"continue"} ELSE {}

\* What the sleep of the scheduled handle may resolve to at a poll
SleepOutcomes(elapsed, hasCancel, fired) ==
    (IF elapsed THEN {"continue"} ELSE {})
    \cup (IF hasCancel /\ fired THEN {"cancelled"} ELSE {})

----------------------------------------------------------------------------
(* The counting action of the unit test *)

\* Mutant: the action hands out its count without moving it
CounterCall_NoIncrement(c) == [ret |-> c, next |-> c]

\* Counter::call: let c = self.0; self.0 += 1; the future resolves to Ok(c)
CounterCall(c) == [ret |-> c, next |-> c + 1]

----------------------------------------------------------------------------
(* The cell's tokio Mutex: fair, a released lock goes to the first waiter *)

\* Mutant: the lock is handed out while it is held
LockFree_Always == TRUE

\* Mutant: the guard is given up while the inner call is awaited
LockFree_DuringCall == holder = None \/ pc[holder] = "call"

LockFree == holder = None

Acquire(p) ==
    /\ holder' = IF LockFree THEN p ELSE holder
    /\ waitq' = IF LockFree THEN waitq ELSE Append(waitq, p)

\* Mutant: the guard is kept over the await that follows
Release_Kept == UNCHANGED <<holder, waitq>>

\* Mutant: a released lock goes to the latest waiter
Release_Lifo ==
    /\ holder' = IF waitq = <<>> THEN None ELSE waitq[Len(waitq)]
    /\ waitq' = IF waitq = <<>> THEN waitq ELSE SubSeq(waitq, 1, Len(waitq) - 1)

Release ==
    /\ holder' = IF waitq = <<>> THEN None ELSE Head(waitq)
    /\ waitq' = IF waitq = <<>> THEN waitq ELSE Tail(waitq)

----------------------------------------------------------------------------
(* Initial state *)

\* The state after construction, but for the wrapped action
Boot ==
    /\ now = 0
    /\ cfg \in [interval : Durations, timeout : Timeouts, wiring : Wirings,
               sweeps : Sweeps]
    /\ cancelled = FALSE
    /\ fresh = FALSE
    /\ wakeup = At(0)
    /\ holder = None
    /\ waitq = <<>>
    /\ pc = [p \in Callers |-> IF p = Driver THEN "loop" ELSE "idle"]
    /\ sleepUntil = [p \in SchedCallers |-> Zero]
    /\ callStart = [p \in Callers |-> -1]
    /\ inner = [p \in Callers |-> None]
    /\ innerAt = [p \in Callers |-> -1]
    /\ invoked = [p \in SchedCallers |-> FALSE]
    /\ res = [p \in Callers |-> None]
    /\ last = NoLast
    /\ uEnd = -1
    /\ sEnd = -1
    /\ sup = "run"
    /\ nth = 0
    /\ reqAt = NoRequest
    /\ sink = <<>>
    /\ wHolder = None
    /\ wWaitq = <<>>
    /\ wpc = [w \in Writers |-> "idle"]
    /\ wCall = [w \in Writers |-> 0]
    /\ wLeft = [w \in Writers |-> 0]
    /\ wRes = [w \in Writers |-> NoResult]
    /\ nCalls = 0
    /\ underLock = {}
    /\ cks = NoChunks
    /\ origin = NoOrigin
    /\ rd = NoReader
    /\ val = -1
    /\ late = {}
    /\ version = 0
    /\ closed = FALSE
    /\ seen = [o \in Observers |-> 0]
    /\ clone = [o \in Cloners |-> -1]
    /\ saw = NoObservation
    /\ times = [o \in Observers |-> 0]
    /\ swp = [s \in SweepIds |-> [st |-> "idle", i |-> 1]]
    /\ task = [k \in TaskIds |-> "none"]
    /\ owner = [t \in Targets |-> NoTask]
    /\ queue = [t \in Targets |-> <<>>]
    /\ dpc = [t \in Targets |-> "loop"]
    /\ ucalls = [s \in SweepIds |-> [t \in Targets |-> 0]]
    /\ passed = [k \in TaskIds |-> <<>>]
    /\ writer = NoTask
    /\ wqueue = <<>>

\* A positive interval, and an action that keeps no count
Init == Boot /\ count = -1 /\ cfg.interval \in Intervals

----------------------------------------------------------------------------
(* The callers' steps *)

\* A driver loop that never looks at the signal
DriverExits_Never == FALSE

\* The negated loop predicate of DebugBunny's driver,
\* cancel.has_changed().unwrap_or(true); TargetCollection's driver is a bare
\* loop
DriverExits == HasCancel /\ cancelled

\* The driver's loop predicate or a direct caller's call, and the first poll
\* of ScheduledScrapeTarget::call
SchedStart(p) ==
    /\ p \in SchedCallers
    /\ \/ p = Driver /\ pc[p] = "loop"
       \/ p # Driver /\ pc[p] = "idle" /\ ~HasCancel
    /\ IF p = Driver /\ DriverExits
       THEN /\ pc' = [pc EXCEPT ![p] = "exit"]
            /\ UNCHANGED <<holder, waitq, invoked, res, reqAt>>
       ELSE /\ pc' = [pc EXCEPT ![p] = "lock"]
            /\ Acquire(p)
            /\ invoked' = [invoked EXCEPT ![p] = FALSE]
            /\ res' = [res EXCEPT ![p] = None]
            /\ reqAt' = IF nth >= 0 THEN [reqAt EXCEPT ![p] = now] ELSE reqAt
    /\ last' = NoLast
    /\ UNCHANGED <<sinkVars, chunkVars, watchVars, sweepVars>>
    /\ UNCHANGED <<now, cfg, cancelled, fresh, wakeup, sleepUntil, callStart,
                   inner, innerAt, uEnd, sEnd, sup, nth, countVars, late>>

\* p.process(&c, result).await returns in the driver
ProcessDone(p) ==
    /\ p = Driver
    /\ pc[p] = "process"
    /\ pc' = [pc EXCEPT ![p] = "loop"]
    /\ last' = NoLast
    /\ UNCHANGED <<sinkVars, chunkVars, watchVars, sweepVars>>
    /\ UNCHANGED <<now, cfg, cancelled, fresh, wakeup, holder, waitq, sleepUntil,
                   callStart, inner, innerAt, invoked, res, uEnd, sEnd, sup, schedVars,
                   countVars, late>>

\* The first poll of UnscheduledScrapeTarget::call
UnschedStart(p) ==
    /\ p \in cfg.sweeps
    /\ pc[p] = "idle"
    /\ sup = "run"
    /\ pc' = [pc EXCEPT ![p] = "lock"]
    /\ Acquire(p)
    /\ nth' = -1
    /\ reqAt' = NoRequest
    /\ late' = IF HasCancel /\ cancelled THEN late \cup {p} ELSE late
    /\ last' = NoLast
    /\ UNCHANGED <<sinkVars, chunkVars, watchVars, sweepVars>>
    /\ UNCHANGED <<now, cfg, cancelled, fresh, wakeup, sleepUntil, callStart,
                   inner, innerAt, invoked, res, uEnd, sEnd, sup, countVars>>

\* inner.lock().await has returned the guard
Granted(p) ==
    /\ pc[p] = "lock"
    /\ holder = p
    /\ IF p \in SchedCallers /\ ~IsDue(wakeup, At(now))
       THEN /\ pc' = [pc EXCEPT ![p] = "sleep"]
            /\ sleepUntil' = [sleepUntil EXCEPT ![p] = wakeup]
            /\ Release
            /\ UNCHANGED <<callStart, inner, invoked, schedVars, countVars>>
       ELSE /\ pc' = [pc EXCEPT ![p] = "call"]
            /\ callStart' = [callStart EXCEPT ![p] = now]
            /\ inner' = [inner EXCEPT ![p] = "pending"]
            /\ IF count >= 0
               THEN /\ val' = CounterCall(count).ret
                    /\ count' = CounterCall(count).next
               ELSE UNCHANGED countVars
            /\ invoked' = IF p \in SchedCallers
                          THEN [invoked EXCEPT ![p] = TRUE] ELSE invoked
            /\ IF p \in SchedCallers /\ nth >= 0
               THEN IF Leq(At(reqAt[p]), wakeup)
                    THEN /\ nth' = nth + 1
                         /\ reqAt' = [reqAt EXCEPT ![p] = -1]
                    ELSE /\ nth' = -1
                         /\ reqAt' = NoRequest
               ELSE UNCHANGED schedVars
            /\ UNCHANGED <<sleepUntil, holder, waitq>>
    /\ last' = NoLast
    /\ UNCHANGED <<sinkVars, chunkVars, watchVars, sweepVars>>
    /\ UNCHANGED <<now, cfg, cancelled, fresh, wakeup, innerAt, res, uEnd, sEnd, sup,
                   late>>

\* The wrapped action's future becomes ready
InnerDone(p) ==
    /\ pc[p] = "call"
    /\ inner[p] = "pending"
    /\ \E r \in {"ok", "err"} : inner' = [inner EXCEPT ![p] = r]
    /\ innerAt' = [innerAt EXCEPT ![p] = now]
    /\ last' = NoLast
    /\ UNCHANGED <<sinkVars, chunkVars, watchVars, sweepVars>>
    /\ UNCHANGED <<now, cfg, cancelled, fresh, wakeup, holder, waitq, pc,
                   sleepUntil, callStart, invoked, res, uEnd, sEnd, sup, schedVars,
                   countVars, late>>

\* lockguard.inner.call().await resolves; the schedule is moved and the guard
\* dropped in the same poll
Complete(p) ==
    /\ pc[p] = "call"
    /\ \E r \in TimeoutOutcomes(inner[p],
                                 Elapsed(callStart[p], cfg.timeout, now),
                                 HasCancel /\ cancelled) :
        LET panics == \/ DivByZero(cfg.interval)
                      \/ p \in SchedCallers /\ AssertFails(wakeup, cfg.interval, At(now))
            w1 == IF panics
                  THEN IF p \in SchedCallers THEN wakeup ELSE At(now)
                  ELSE IF p \in SchedCallers
                  THEN SetNextWakeUpTime(wakeup, cfg.interval, At(now))
                  ELSE ResetInterval(wakeup, cfg.interval, At(now))
            out == IF panics THEN "Panic" ELSE r
        IN  /\ wakeup' = w1
            /\ res' = [res EXCEPT ![p] = out]
            /\ pc' = [pc EXCEPT ![p] = IF panics THEN "panic" ELSE Returned(p)]
            /\ last' = [kind |-> IF p \in SchedCallers THEN "sched" ELSE "unsched",
                        who |-> p, start |-> callStart[p], at |-> now,
                        res |-> r, panic |-> panics, inner |-> inner[p],
                        innerAt |-> innerAt[p], fired |-> cancelled,
                        fresh |-> fresh, w0 |-> wakeup, w1 |-> w1,
                        prev |-> IF p \in SchedCallers /\ ~panics
                                 THEN sEnd ELSE -1,
                        val |-> val, late |-> p \in late]
            /\ sEnd' = IF p \in SchedCallers /\ ~panics
                       THEN NextReturn(sEnd, now) ELSE sEnd
    /\ Release
    /\ callStart' = [callStart EXCEPT ![p] = -1]
    /\ inner' = [inner EXCEPT ![p] = None]
    /\ innerAt' = [innerAt EXCEPT ![p] = -1]
    /\ uEnd' = IF p \in UnschedCallers THEN now ELSE uEnd
    /\ IF p \in SchedCallers /\ nth >= 0
          /\ ~Less(At(now), Slot(cfg.interval, nth))
       THEN /\ nth' = -1
            /\ reqAt' = NoRequest
       ELSE UNCHANGED schedVars
    /\ val' = -1
    /\ late' = late \ {p}
    /\ UNCHANGED <<sinkVars, chunkVars, watchVars, sweepVars>>
    /\ UNCHANGED <<now, cfg, cancelled, fresh, sleepUntil, invoked, sup, count>>

\* The select! over sleep_until(wakeup) and cancel.changed(), or the plain sleep
SleepStep(p) ==
    /\ p \in SchedCallers
    /\ pc[p] = "sleep"
    /\ \E o \in SleepOutcomes(Leq(sleepUntil[p], At(now)), HasCancel, cancelled) :
        IF o = "continue"
        THEN /\ pc' = [pc EXCEPT ![p] = "lock"]
             /\ Acquire(p)
             /\ sleepUntil' = [sleepUntil EXCEPT ![p] = Zero]
             /\ UNCHANGED <<res, reqAt, sEnd>>
        ELSE /\ pc' = [pc EXCEPT ![p] = Returned(p)]
             /\ sEnd' = NextReturn(sEnd, now)
             /\ res' = [res EXCEPT ![p] = "Cancelled"]
             /\ reqAt' = [reqAt EXCEPT ![p] = -1]
             /\ UNCHANGED <<holder, waitq, sleepUntil>>
    /\ last' = NoLast
    /\ UNCHANGED <<sinkVars, chunkVars, watchVars, sweepVars>>
    /\ UNCHANGED <<now, cfg, cancelled, fresh, wakeup, callStart,
                   inner, innerAt, invoked, uEnd, sup, nth, countVars, late>>

----------------------------------------------------------------------------
(* The supervisor and the clock *)

\* DebugBunny::stop
Stop ==
    /\ HasCancel
    /\ sup = "run"
    /\ cancelled' = TRUE
    /\ fresh' = (fresh \/ ~cancelled)
    /\ last' = NoLast
    /\ UNCHANGED <<sinkVars, chunkVars, watchVars, sweepVars>>
    /\ UNCHANGED <<now, cfg, wakeup, holder, waitq, pc, sleepUntil, callStart,
                   inner, innerAt, invoked, res, uEnd, sEnd, sup, schedVars,
                   countVars, late>>

\* DebugBunny::await_shutdown is called
AwaitShutdown ==
    /\ HasCancel
    /\ sup = "run"
    /\ sup' = "joining"
    /\ last' = NoLast
    /\ UNCHANGED <<sinkVars, chunkVars, watchVars, sweepVars>>
    /\ UNCHANGED <<now, cfg, cancelled, fresh, wakeup, holder, waitq, pc,
                   sleepUntil, callStart, inner, innerAt, invoked, res, uEnd, sEnd,
                   schedVars, countVars, late>>

\* The driver's JoinHandle resolves (Ok, or Err after a panic) and
\* await_shutdown returns
Joined ==
    /\ sup = "joining"
    /\ pc[Driver] \in {"exit", "panic"}
    /\ sup' = "shutdown"
    /\ last' = NoLast
    /\ UNCHANGED <<sinkVars, chunkVars, watchVars, sweepVars>>
    /\ UNCHANGED <<now, cfg, cancelled, fresh, wakeup, holder, waitq, pc,
                   sleepUntil, callStart, inner, innerAt, invoked, res, uEnd, sEnd,
                   schedVars, countVars, late>>

\* A woken task: the runtime polls it before the clock moves
Woken(p) ==
    \/ pc[p] = "loop"
    \/ pc[p] = "lock" /\ holder = p
    \/ /\ pc[p] = "call"
       /\ TimeoutOutcomes(inner[p], Elapsed(callStart[p], cfg.timeout, now),
                          HasCancel /\ cancelled) # {}
    \/ /\ pc[p] = "sleep"
       /\ SleepOutcomes(Leq(sleepUntil[p], At(now)), HasCancel, cancelled) # {}

Tick ==
    /\ now < MaxTime
    /\ \A p \in Callers : ~Woken(p)
    /\ ~(sup = "joining" /\ pc[Driver] \in {"exit", "panic"})
    /\ now' = now + 1
    /\ fresh' = FALSE
    /\ last' = NoLast
    /\ UNCHANGED <<sinkVars, chunkVars, watchVars, sweepVars>>
    /\ UNCHANGED <<cfg, cancelled, wakeup, holder, waitq, pc, sleepUntil,
                   callStart, inner, innerAt, invoked, res, uEnd, sEnd, sup, schedVars,
                   countVars, late>>

Next ==
    \/ \E p \in Callers :
        \/ SchedStart(p)
        \/ ProcessDone(p)
        \/ UnschedStart(p)
        \/ Granted(p)
        \/ InnerDone(p)
        \/ Complete(p)
        \/ SleepStep(p)
    \/ Stop
    \/ AwaitShutdown
    \/ Joined
    \/ Tick

Spec == Init /\ [][Next]_vars

\* A step of a woken task: the driver at its loop predicate or handed back
\* the processor's result, a granted lock, a resolved call, a resolved sleep
TaskStep ==
    \E p \in Callers :
        \/ SchedStart(p) /\ p = Driver
        \/ ProcessDone(p)
        \/ Granted(p)
        \/ Complete(p)
        \/ SleepStep(p)

\* DebugBunny::start_scraping: the cell is wired to the cancel signal; one
\* unscheduled sweep
LiveInit == Init /\ HasCancel /\ cfg.sweeps = {"u1"}

\* The runtime keeps polling woken tasks, process() returns and the joined
\* handle resolves.  Nothing obliges the inner action to finish, the clock to
\* advance or anybody to call stop().
LiveSpec == LiveInit /\ [][Next]_vars /\ WF_vars(TaskStep) /\ WF_vars(Joined)

\* A cell of DebugBunny called by its driver and by two sweeps that overlap,
\* while nobody stops the supervisor
FairInit == Init /\ HasCancel /\ cfg.timeout = 1 /\ cfg.sweeps = UnschedCallers

FairNext ==
    \/ \E p \in Callers :
        \/ SchedStart(p)
        \/ ProcessDone(p)
        \/ UnschedStart(p)
        \/ Granted(p)
        \/ InnerDone(p)
        \/ Complete(p)
        \/ SleepStep(p)
    \/ Tick

\* Time passes and the runtime keeps polling woken tasks and process()
\* returns.  Nothing obliges the inner action to finish or a caller to call.
FairSpec == FairInit /\ [][FairNext]_vars /\ WF_vars(TaskStep) /\ WF_vars(Tick)

\* The cell around a Counter(0), called every nanosecond and by one sweep
CountInit == Boot /\ count = 0 /\ cfg.interval = One /\ cfg.sweeps = {"u1"}

CountSpec == CountInit /\ [][Next]_vars

\* A cell built from any interval the builder takes, with one sweep
BuildInit == Boot /\ count = -1 /\ cfg.timeout = 1 /\ cfg.sweeps = {"u1"}

BuildSpec == BuildInit /\ [][Next]_vars

----------------------------------------------------------------------------
(* Claims about the scheduler cell *)

\* C1: at most one invocation of the inner action is in flight on the cell,
\* whatever mix of scheduled and unscheduled callers contends for it, and the
\* caller whose invocation is in flight owns the cell's lock.
C1_AtMostOneInFlight ==
    /\ Cardinality({p \in Callers : pc[p] = "call"}) <= 1
    /\ \A p \in Callers : pc[p] = "call" => holder = p

\* C1 witness: an unscheduled call is in flight while a scheduled and another
\* unscheduled caller wait for the lock.
C1_Witness ==
    /\ pc["u1"] = "call"
    /\ pc["drv"] = "lock"
    /\ pc["u2"] = "lock"

\* C2: once an unscheduled call has completed at tick uEnd, every inner call
\* of the scheduled handle starts at uEnd + interval or later.
C2_UnscheduledResets ==
    \A p \in SchedCallers :
        (pc[p] = "call" /\ uEnd >= 0)
            => Leq(Add(At(uEnd), cfg.interval), At(callStart[p]))

\* C2 witness: a scheduled call starts exactly one interval after the
\* unscheduled call ended, although the schedule before the reset asked for
\* an earlier start.
C2_Witness ==
    /\ cfg.interval = Dur(2, 0)
    /\ pc["drv"] = "call"
    /\ uEnd = 1
    /\ callStart["drv"] = 3

\* C3 (as claimed): a scheduled call completing at `now >= next_wakeup` moves
\* next_wakeup by k intervals, k = floor((now - next_wakeup) / interval) + 1.
C3_AdvanceByKIntervals ==
    last.kind = "sched"
        => last.w1 = Add(last.w0,
                         Mul(cfg.interval,
                             Add(Div(Sub(At(last.at), last.w0), cfg.interval), One)))

\* C4 (as claimed): when a call completes and releases the lock, next_wakeup
\* is later than the completion instant and at most one interval after it.
C4_BoundedCatchUp ==
    last.kind # "none"
        => /\ Less(At(last.at), last.w1)
           /\ Leq(last.w1, Add(At(last.at), cfg.interval))

\* C5: next_wakeup never decreases, whatever the interleaving of advances
\* and resets.
C5_WakeupMonotone == [][Leq(wakeup, wakeup')]_vars

\* C5 witness: an unscheduled call has reset a schedule whose wakeup lay in
\* the future, and the wakeup moved forward.
C5_Witness ==
    /\ last.kind = "unsched"
    /\ Less(At(last.at), last.w0)
    /\ Less(last.w0, last.w1)

----------------------------------------------------------------------------
(* Claims about the timeout wrapper and about cancellation *)

\* C6 (as claimed): a call through the wrapper built with a cancel signal
\* never returns Timeout when the signal has fired by the time it resolves.
C6_CancelAlwaysWins ==
    (HasCancel /\ last.kind # "none" /\ last.fired) => last.res # "Timeout"

\* C6 (amended): with the signal visible at a poll at which the deadline has
\* not passed and the action is pending, the call resolves to Cancelled; it
\* returns Timeout with the signal fired only if the deadline had passed at
\* the first poll that could see the signal.
C6_CancelWinsPendingDeadline ==
    (HasCancel /\ last.kind # "none" /\ last.fired)
        => /\ (last.inner = "pending"
                 /\ ~Elapsed(last.start, cfg.timeout, last.at))
                => last.res = "Cancelled"
           /\ last.res = "Timeout"
                => /\ Elapsed(last.start, cfg.timeout, last.at)
                   /\ last.fresh \/ last.at = last.start

\* C6 witness: deadline and signal are ready at the same poll and the call
\* resolves to Cancelled.
C6_Witness ==
    /\ last.res = "Cancelled"
    /\ last.inner = "pending"
    /\ last.fresh
    /\ Elapsed(last.start, cfg.timeout, last.at)

\* C7: a scheduled call that sleeps towards a wakeup still ahead, with the
\* cancel signal fired, leaves the sleep only by returning Cancelled; it has
\* not invoked the inner action and does not move next_wakeup.
C7_CancelDuringSleep ==
    [][\A p \in SchedCallers :
         (/\ pc[p] = "sleep"
          /\ HasCancel /\ cancelled
          /\ Less(At(now), sleepUntil[p])
          /\ pc'[p] # "sleep")
            => /\ pc'[p] = Returned(p)
               /\ res'[p] = "Cancelled"
               /\ ~invoked[p] /\ ~invoked'[p]
               /\ wakeup' = wakeup]_vars

\* C7 witness: a scheduled call has returned Cancelled out of its sleep,
\* before the wakeup it slept towards, without invoking the action.
C7_Witness ==
    \E p \in SchedCallers :
        /\ pc[p] = Returned(p)
        /\ res[p] = "Cancelled"
        /\ ~invoked[p]
        /\ Less(At(now), sleepUntil[p])

\* C8: a call through the wrapper resolves at the tick of the first of its
\* three events and with one of the events ready then: the action's own Ok
\* or Err unchanged, Timeout at the deadline, Cancelled only with a signal
\* configured and fired; never later than the deadline.
C8_FirstEventWins ==
    last.kind # "none"
        => /\ last.res \in {"Ok", "Err", "Timeout", "Cancelled"}
           /\ last.at <= last.start + cfg.timeout
           /\ last.res = "Ok" => last.inner = "ok"
           /\ last.res = "Err" => last.inner = "err"
           /\ last.inner # "pending" => last.innerAt = last.at
           /\ last.res = "Timeout"
                => /\ last.inner = "pending"
                   /\ last.at = last.start + cfg.timeout
           /\ last.res = "Cancelled" => (HasCancel /\ last.fired)
           /\ (HasCancel /\ last.fired) => (last.fresh \/ last.at = last.start)
           /\ ~HasCancel => last.res \in {"Ok", "Err", "Timeout"}

\* C8 witness: the action's result and the deadline are ready at the same
\* poll of a wrapper without cancel signal, and the action's error is passed
\* through.
C8_Witness ==
    /\ ~HasCancel
    /\ last.res = "Err"
    /\ last.at = last.start + cfg.timeout

----------------------------------------------------------------------------
(* Claims about shutdown *)

\* C9: once stop() has been called the driver task terminates (it leaves its
\* loop, or dies in a panic), wherever it stood at that moment, and a pending
\* await_shutdown() returns, provided process() returns.
C9_StopTerminatesDriver ==
    /\ cancelled ~> (pc[Driver] \in {"exit", "panic"})
    /\ (cancelled /\ sup = "joining") ~> (sup = "shutdown")

\* C9 witness: stop() caught the driver inside a scheduled call, which
\* returned Cancelled, and await_shutdown() has returned.
C9_Witness ==
    /\ cancelled
    /\ res[Driver] = "Cancelled"
    /\ pc[Driver] = "exit"
    /\ sup = "shutdown"

\* An instant is W0 plus a whole number of intervals
OnGrid(w, ival) == Mul(ival, Div(w, ival)) = w

\* C18: executing a call does not delay the schedule unless it takes longer
\* than the interval.  In a run without unscheduled completions next_wakeup
\* is always W0 + n * interval for a whole n >= 0; and while every scheduled
\* call was requested no later than its wakeup and completed before the next
\* slot, the scheduled call number n (from 0) starts at W0 + n * interval,
\* at the resolution of the clock, and leaves next_wakeup at the next slot.
C18_NoDrift ==
    /\ uEnd = -1 => OnGrid(wakeup, cfg.interval)
    /\ nth >= 0 =>
           /\ \A p \in SchedCallers :
                  pc[p] = "call" =>
                      /\ callStart[p] = FirstTickAt(Slot(cfg.interval, nth - 1))
                      /\ wakeup = Slot(cfg.interval, nth - 1)
           /\ (\A p \in SchedCallers : pc[p] # "call") =>
                  wakeup = Slot(cfg.interval, nth)

\* C18 witness: the third scheduled call of an on-schedule run starts two
\* intervals after the construction.
C18_Witness ==
    /\ cfg.interval = Dur(2, 0)
    /\ nth = 3
    /\ pc["drv"] = "call"
    /\ callStart["drv"] = 4

ExitsAfterResult ==
    (HasCancel /\ pc[Driver] = "loop" /\ pc'[Driver] = "exit")
        => (sEnd # -1 \/ now = 0)

----------------------------------------------------------------------------
(* Claims about invocations, the lock and cancellation *)

\* C22: a call on either handle invokes the inner action at most once, when
\* it is granted the lock, and never again before it returns; with a counting
\* action each invocation takes the next count, nothing else moves the count,
\* and the call that returns (with Ok, Err or Timeout) is the one that took
\* the latest count, so sequential calls return 0, 1, 2, ... in order and a
\* timed-out call consumes its count.
C22_OneInvocationPerCall ==
    [][/\ \A p \in Callers :
            /\ (pc[p] # "call" /\ pc'[p] = "call")
                 => /\ pc[p] = "lock" /\ holder = p
                    /\ p \in SchedCallers => ~invoked[p]
                    /\ val = -1
                    /\ val' = count
                    /\ count' = count + 1
            /\ (pc[p] = "call" /\ pc'[p] # "call")
                 => /\ pc'[p] \in {Returned(p), "panic"}
                    /\ last'.who = p
                    /\ last'.val = count - 1
                    /\ count' = count
       /\ count' # count => \E p \in Callers : pc[p] = "lock" /\ pc'[p] = "call"
      ]_vars

\* C22 witness: an unscheduled call has ended in Timeout and the scheduled
\* call after it has taken the count 2.
C22_Witness ==
    /\ res["u1"] = "Timeout"
    /\ pc[Driver] = "call"
    /\ val = 2
    /\ count = 3

\* C23: a scheduled caller that sleeps towards the wakeup neither owns the
\* cell's lock nor waits for it, and the lock is owned only by a caller that
\* has just been granted it or whose inner call is in flight.  So an
\* unscheduled call that finds no call in flight is granted the lock in the
\* step in which it asks for it, and a granted unscheduled caller invokes the
\* inner action before the clock moves, due or not.
C23_NoLockWhileSleeping ==
    /\ [](/\ \A p \in SchedCallers :
               pc[p] = "sleep" => (holder # p /\ \A i \in 1..Len(waitq) : waitq[i] # p)
          /\ holder # None => pc[holder] \in {"lock", "call"}
          /\ holder = None => waitq = <<>>)
    /\ [][\A u \in UnschedCallers :
            /\ (pc[u] = "idle" /\ pc'[u] = "lock"
                  /\ \A q \in Callers : pc[q] \notin {"lock", "call"})
                 => holder' = u
            /\ (pc[u] = "lock" /\ holder = u)
                 => /\ now' = now
                    /\ pc'[u] # "lock" => (pc'[u] = "call" /\ callStart'[u] = now)
         ]_vars

\* C23 witness: while the driver sleeps towards a wakeup still ahead, an
\* unscheduled call has invoked the action in the tick in which the sleep
\* began, with the target not due.
C23_Witness ==
    /\ pc[Driver] = "sleep"
    /\ Less(At(now), sleepUntil[Driver])
    /\ pc["u1"] = "call"
    /\ callStart["u1"] = now
    /\ Less(At(now), wakeup)
    /\ sEnd = now

\* C24: the inner call's completion, the advance or reset belonging to it
\* and the release of the lock are one step of the lock's owner, and
\* next_wakeup changes in no other step; a caller decides between invoking
\* and sleeping only as the owner, with no call in flight, and a scheduled
\* caller invokes only with next_wakeup <= now and sleeps only towards the
\* next_wakeup it has just read; a sleeper that wakes goes back to the lock
\* (or returns Cancelled), never straight to the action.  (A scheduled
\* completion whose advance fails its assertion leaves next_wakeup as it
\* was.)
C24_CompletionAtomicWithSchedule ==
    [][/\ wakeup' # wakeup
            => \E p \in Callers : pc[p] = "call" /\ pc'[p] # "call" /\ holder = p
       /\ \A p \in Callers :
            /\ (pc[p] = "call" /\ pc'[p] # "call")
                 => /\ holder = p /\ holder' # p
                    /\ last'.w0 = wakeup /\ last'.w1 = wakeup'
                    /\ wakeup' = IF last'.panic THEN wakeup
                                 ELSE IF p \in SchedCallers
                                 THEN SetNextWakeUpTime(wakeup, cfg.interval, At(now))
                                 ELSE ResetInterval(wakeup, cfg.interval, At(now))
            /\ (pc[p] = "lock" /\ pc'[p] # "lock")
                 => /\ holder = p
                    /\ \A q \in Callers : pc[q] # "call"
                    /\ pc'[p] \in {"call", "sleep"}
                    /\ (p \in SchedCallers /\ pc'[p] = "call") => Leq(wakeup, At(now))
                    /\ pc'[p] = "sleep"
                         => /\ p \in SchedCallers
                            /\ Less(At(now), wakeup)
                            /\ sleepUntil'[p] = wakeup
            /\ (pc[p] = "sleep" /\ pc'[p] # "sleep")
                 => pc'[p] \in {"lock", Returned(p)}
      ]_vars

\* C24 witness: an unscheduled completion has reset a wakeup that was due and
\* handed the lock, in the same step, to a waiting scheduled caller, which
\* finds the target not due.
C24_Witness ==
    /\ last.kind = "unsched"
    /\ Leq(last.w0, At(now))
    /\ wakeup = last.w1
    /\ Less(At(now), wakeup)
    /\ holder = Driver
    /\ pc[Driver] = "lock"

\* The callers that are served before a waiting caller: the owner and the
\* waiters in front of it
Ahead(p) ==
    IF holder = p THEN 0
    ELSE Cardinality({i \in 1..Len(waitq) : \E j \in i..Len(waitq) : waitq[j] = p})

\* C25: the lock's waiters are served in arrival order: the queue changes
\* only by a newcomer joining at its end or by its head becoming the owner,
\* and a released lock goes to the head.  Hence, as time passes, an
\* unscheduled call that waits for the lock with its turn and its own
\* deadline within the horizon of the clock invokes the inner action and
\* completes, whatever the driver and the other sweep do.
C25_FifoNoStarvation ==
    /\ [][/\ \/ waitq' = waitq
             \/ \E p \in Callers : waitq' = Append(waitq, p) /\ holder' = holder
             \/ waitq # <<>> /\ waitq' = Tail(waitq) /\ holder' = Head(waitq)
          /\ \A p \in Callers :
               (pc[p] = "lock" /\ holder # p /\ holder' = p) => Head(waitq) = p
         ]_vars
    /\ \A u \in UnschedCallers :
         (pc[u] = "lock" /\ now + ((Ahead(u) + 1) * cfg.timeout) <= MaxTime)
             ~> (pc[u] = "done")

\* C25 witness: the driver's call has completed and handed the lock to the
\* first of two unscheduled calls that queued behind it, the second staying
\* at the head of the queue.
C25_Witness ==
    /\ last.kind = "sched"
    /\ holder = "u2"
    /\ pc["u2"] = "lock"
    /\ waitq = <<"u1">>
    /\ pc[Driver] = "process"

\* C27 (as claimed): a call whose action was in flight under the lock when
\* the cancel signal fired returns the action's own result or Timeout, not
\* Cancelled.
C27_InFlightRunsToCompletion ==
    (HasCancel /\ last.kind # "none" /\ last.fired /\ last.start < last.at)
        => last.res \in {"Ok", "Err", "Timeout"}

\* C27 (amended): a call whose action was in flight under the lock when the
\* cancel signal fired resolves in the tick in which the signal fired: to
\* Cancelled when the action is still pending and the deadline has not
\* passed, and otherwise to Cancelled or to what became ready at that same
\* poll, the action's result or Timeout.  The action's future is dropped
\* with the call.
C27_InFlightAbandoned ==
    (HasCancel /\ last.kind # "none" /\ last.fired /\ last.start < last.at)
        => /\ last.fresh
           /\ inner[last.who] = None
           /\ (last.inner = "pending" /\ ~Elapsed(last.start, cfg.timeout, last.at))
                => last.res = "Cancelled"
           /\ last.res \in {"Ok", "Err"} => last.innerAt = last.at
           /\ last.res = "Timeout" => last.at = last.start + cfg.timeout

\* C27 witness: the driver's call, invoked a tick before stop() and with its
\* action pending and its deadline ahead, has returned Cancelled.
C27_Witness ==
    /\ last.kind = "sched"
    /\ last.who = Driver
    /\ last.res = "Cancelled"
    /\ last.inner = "pending"
    /\ last.start < last.at
    /\ ~Elapsed(last.start, cfg.timeout, last.at)

\* C28 (as claimed): an unscheduled call that began with the cancel signal
\* already fired never invokes the inner action, and returns Cancelled.
C28_LateUnscheduledCancelled ==
    /\ \A u \in late : pc[u] # "call"
    /\ (last.kind = "unsched" /\ last.late) => last.res = "Cancelled"

\* How far the driver's iteration has come: before the invocation, in it,
\* handing the result to the processor, at the loop predicate, out of the loop
Stage(s) ==
    IF s \in {"lock", "sleep"} THEN 0
    ELSE IF s = "call" THEN 1
    ELSE IF s = "process" THEN 2
    ELSE IF s = "loop" THEN 3
    ELSE 4

\* C29 (as claimed): the driver leaves its loop predicate only after
\* consulting a cancel signal, into a scheduled call when the signal is armed
\* and out of the loop when it has fired; and once the signal has fired the
\* driver only moves forward through the iteration it is in (at most one
\* invocation, one result handed over) to the exit, starting no other.
C29_DriverConsultsCancel ==
    [][/\ (pc[Driver] = "loop" /\ pc'[Driver] # "loop")
            => /\ HasCancel
               /\ pc'[Driver] = IF cancelled THEN "exit" ELSE "lock"
       /\ cancelled => Stage(pc'[Driver]) >= Stage(pc[Driver])
      ]_vars

\* C31: a target whose interval is zero is rejected at configuration time, so
\* that no scheduler cell exists with a zero interval and no completion's
\* advance step divides by a zero interval.  (Nothing rejects it: the cell is
\* built and its first completion panics in the division.)
C31_ZeroIntervalRejected ==
    last.kind # "none" => ~DivByZero(cfg.interval)

\* C34: in every completion of a scheduled call the assertion f >= 1 of
\* set_next_wake_up_time holds and the factor is exact: the quotient
\* (delta + interval) / interval, delta = now - next_wakeup, is the same
\* before and after its narrowing to u32, so that the new next_wakeup is
\* later than now.
C34_FactorExact ==
    last.kind = "sched" =>
        /\ ~last.panic
        /\ Factor(last.w0, cfg.interval, At(last.at))
             = Div(Add(Sub(At(last.at), last.w0), cfg.interval), cfg.interval)
        /\ Less(At(last.at), last.w1)

----------------------------------------------------------------------------
(* LogOutputWriter: the emitters of one sink *)

\* tokio::io::copy of one record into the wrapped writer: the whole line, an
\* error before any byte, or an error after part of the line
WriteOutcomes == {"ok", "err", "torn"}

\* The ScrapeErr variants
ErrKinds == {"Http", "Io", "Timeout", "Cancelled"}

\* The content ids of the bodies that are emitted
Ids == {"a", "b"}

\* The ScrapeResult<ScrapeOk> handed to process(): an error, or a response
\* whose compressed body has one of the content ids `ids` and makes k chunks
Results(ids) ==
    [kind : ErrKinds, id : {None}, k : {0}]
        \cup [kind : {"Ok"}, id : ids, k : 0..MaxChunks]

\* Mutant: an error is represented like a response
FromScrapeResult_ErrAsSuccess(r) ==
    [outcome |-> "Success", sha |-> r.id, chunks |-> TRUE, id |-> r.id]

\* ScrapeResultRepr::from_scrape_result: the outcome tag of the metadata,
\* the body_sha256 it carries, whether there are chunks to write and the id
\* of the Chunks value
FromScrapeResult(r) ==
    IF r.kind = "Ok"
    THEN [outcome |-> "Success", sha |-> r.id, chunks |-> TRUE, id |-> r.id]
    ELSE [outcome |-> "Error", sha |-> None, chunks |-> FALSE, id |-> None]

\* Mutant: chunk records are labelled with a fixed id
ChunkId_Fixed(r) == "a"

\* let id = chunks.id(): the id put on every chunk record of the call
ChunkId(r) == r.id

\* A line of the sink, whole or cut short by the error: the call it belongs
\* to, what it is, the outcome tag (metadata only) and the content id
Record(call, kind, outcome, id) ==
    [call |-> call, kind |-> kind, outcome |-> outcome, id |-> id]

MetaRecord(w) == Record(wCall[w], "meta", wRes[w].outcome, wRes[w].sha)

ChunkRecord(w) == Record(wCall[w], "chunk", None, ChunkId(wRes[w]))

Written(w, kind, o) ==
    IF o = "err" THEN sink
    ELSE Append(sink, IF kind = "meta" THEN MetaRecord(w) ELSE ChunkRecord(w))

\* Mutant: the guard is dropped after every record
GuardDropped_AfterEachRecord(left, failed) == TRUE

\* The guard taken before the metadata record lives until process() returns:
\* after the last record, or at the first write error
GuardDropped(left, failed) == failed \/ left = 0

\* The work of the closure handed to spawn_blocking: from_scrape_result
\* (compression, Chunks::new) and the JSON encoding of the metadata
BlockingWork == {"compress", "meta_json"}

\* The work of writing the metadata line
MetaWork == {"copy"}

\* The work of one turn of the loop over chunks.iter(): the next chunk is
\* taken from the iterator, encoded as JSON and copied
ChunkWork == {"iter", "chunk_json", "copy"}

\* The work done so far under the sink's lock, after emitter w has done `work`
Worked(w, work) == IF wHolder = w THEN underLock \cup work ELSE underLock

SinkAcquire(w) ==
    /\ wHolder' = IF wHolder = None THEN w ELSE wHolder
    /\ wWaitq' = IF wHolder = None THEN wWaitq ELSE Append(wWaitq, w)

SinkRelease(w) ==
    IF wHolder # w THEN UNCHANGED <<wHolder, wWaitq>>
    ELSE IF wWaitq = <<>> THEN wHolder' = None /\ wWaitq' = wWaitq
    ELSE wHolder' = Head(wWaitq) /\ wWaitq' = Tail(wWaitq)

\* process() is called with a result (an error has no chunks) and hands the
\* encoding to spawn_blocking
ProcessStart(w, ids) ==
    /\ wpc[w] = "idle"
    /\ nCalls < MaxCalls
    /\ nCalls' = nCalls + 1
    /\ wCall' = [wCall EXCEPT ![w] = nCalls + 1]
    /\ \E r \in Results(ids) :
        /\ wRes' = [wRes EXCEPT ![w] = FromScrapeResult(r)]
        /\ wLeft' = [wLeft EXCEPT ![w] = IF FromScrapeResult(r).chunks
                                         THEN r.k ELSE 0]
    /\ wpc' = [wpc EXCEPT ![w] = "blocking"]
    /\ underLock' = Worked(w, BlockingWork)
    /\ UNCHANGED <<sink, wHolder, wWaitq>>
    /\ UNCHANGED <<cellVars, chunkVars, watchVars, sweepVars>>

\* The blocking task is joined and writer.lock() is polled
Prepared(w) ==
    /\ wpc[w] = "blocking"
    /\ wpc' = [wpc EXCEPT ![w] = "lock"]
    /\ SinkAcquire(w)
    /\ UNCHANGED <<sink, wCall, wLeft, wRes, nCalls, underLock>>
    /\ UNCHANGED <<cellVars, chunkVars, watchVars, sweepVars>>

\* writer.lock().await has returned the guard
SinkGranted(w) ==
    /\ wpc[w] = "lock"
    /\ wHolder = w
    /\ wpc' = [wpc EXCEPT ![w] = "meta"]
    /\ UNCHANGED <<sink, wHolder, wWaitq, wCall, wLeft, wRes, nCalls, underLock>>
    /\ UNCHANGED <<cellVars, chunkVars, watchVars, sweepVars>>

\* The metadata line is copied
WriteMeta(w) ==
    /\ wpc[w] = "meta"
    /\ \E o \in WriteOutcomes :
        LET returns == o # "ok" \/ wLeft[w] = 0
        IN  /\ sink' = Written(w, "meta", o)
            /\ underLock' = Worked(w, MetaWork)
            /\ wpc' = [wpc EXCEPT ![w] = IF returns THEN "idle" ELSE "chunks"]
            /\ wCall' = [wCall EXCEPT ![w] = IF returns THEN 0 ELSE wCall[w]]
            /\ wLeft' = [wLeft EXCEPT ![w] = IF returns THEN 0 ELSE wLeft[w]]
            /\ wRes' = [wRes EXCEPT ![w] = IF returns THEN NoResult ELSE wRes[w]]
            /\ IF GuardDropped(wLeft[w], o # "ok")
               THEN SinkRelease(w)
               ELSE UNCHANGED <<wHolder, wWaitq>>
    /\ UNCHANGED nCalls
    /\ UNCHANGED <<cellVars, chunkVars, watchVars, sweepVars>>

\* One turn of the loop over chunks.iter(): the next chunk line is copied
WriteChunk(w) ==
    /\ wpc[w] = "chunks"
    /\ \E o \in WriteOutcomes :
        LET returns == o # "ok" \/ wLeft[w] = 1
        IN  /\ sink' = Written(w, "chunk", o)
            /\ underLock' = Worked(w, ChunkWork)
            /\ wpc' = [wpc EXCEPT ![w] = IF returns THEN "idle" ELSE "chunks"]
            /\ wCall' = [wCall EXCEPT ![w] = IF returns THEN 0 ELSE wCall[w]]
            /\ wLeft' = [wLeft EXCEPT ![w] = IF returns THEN 0 ELSE wLeft[w] - 1]
            /\ wRes' = [wRes EXCEPT ![w] = IF returns THEN NoResult ELSE wRes[w]]
            /\ IF GuardDropped(wLeft[w] - 1, o # "ok")
               THEN SinkRelease(w)
               ELSE UNCHANGED <<wHolder, wWaitq>>
    /\ UNCHANGED nCalls
    /\ UNCHANGED <<cellVars, chunkVars, watchVars, sweepVars>>

\* Three emitters whose targets answer with the same body every time
SinkNext ==
    \E w \in Writers :
        \/ ProcessStart(w, {"a"})
        \/ Prepared(w)
        \/ SinkGranted(w)
        \/ WriteMeta(w)
        \/ WriteChunk(w)

\* One sink shared by the emitters, whatever the targets do
SinkInit ==
    /\ Init
    /\ cfg = [interval |-> One, timeout |-> 1, wiring |-> "debugbunny",
              sweeps |-> UnschedCallers]

SinkSpec == SinkInit /\ [][SinkNext]_vars

\* Two emitters whose targets answer with either body
EmitNext ==
    \E w \in {"w1", "w2"} :
        \/ ProcessStart(w, Ids)
        \/ Prepared(w)
        \/ SinkGranted(w)
        \/ WriteMeta(w)
        \/ WriteChunk(w)

EmitSpec == SinkInit /\ [][EmitNext]_vars

----------------------------------------------------------------------------
(* Claims about the sink *)

\* C10: the records of one process() call form one contiguous run of the
\* sink: between two records of a call there is no record of another call,
\* however many emitters contend.
C10_ContiguousRuns ==
    \A i, j \in DOMAIN sink :
        (i < j /\ sink[i].call = sink[j].call)
            => \A k \in i..j : sink[k].call = sink[i].call

\* C10 witness: a call's metadata and chunk records are in the sink, a second
\* emitter is in the middle of its chunk records and a third waits for the
\* lock.
C10_Witness ==
    \E w \in Writers :
        /\ wpc[w] = "chunks"
        /\ sink # <<>>
        /\ sink[Len(sink)] = ChunkRecord(w)
        /\ wWaitq # <<>>
        /\ \E i \in DOMAIN sink :
            sink[i].call # wCall[w] /\ sink[i].kind = "chunk"

\* Index of the metadata record that opens the run record i belongs to, 0 if
\* no metadata record precedes it
MetaBefore(i) ==
    LET ms == {j \in 1..i : sink[j].kind = "meta"}
    IN  IF ms = {} THEN 0 ELSE CHOOSE j \in ms : \A m \in ms : m <= j

\* C11: every chunk record follows a metadata record with outcome Success
\* (chunk records only in between), and its id equals that record's
\* body_sha256.
C11_ChunkIdIsBodySha ==
    \A i \in DOMAIN sink :
        sink[i].kind = "chunk"
            => /\ MetaBefore(i) # 0
               /\ sink[MetaBefore(i)].outcome = "Success"
               /\ sink[MetaBefore(i)].id = sink[i].id

\* C11 witness: the sink holds the runs of two calls with different content
\* ids, each a metadata record followed by chunk records.
C11_Witness ==
    \E i, j \in DOMAIN sink :
        /\ i + 1 < j /\ j < Len(sink)
        /\ sink[i].kind = "meta" /\ sink[i + 1].kind = "chunk"
        /\ sink[j].kind = "meta" /\ sink[j + 1].kind = "chunk"
        /\ sink[i].id # sink[j].id

\* C12: an error result is represented by a metadata record with outcome
\* Error and without chunks; the call writes that one record (nothing if
\* the write fails before the first byte) and returns; an Error metadata
\* record is the only record of its call and no chunk record follows it.
C12_ErrorIsOneRecord ==
    /\ [](/\ \A r \in Results(Ids) :
               r.kind \in ErrKinds
                   => /\ FromScrapeResult(r).outcome = "Error"
                      /\ ~FromScrapeResult(r).chunks
          /\ \A w \in Writers :
               wRes[w].outcome = "Error"
                   => /\ wLeft[w] = 0
                      /\ wpc[w] # "chunks"
                      /\ \A i \in DOMAIN sink : sink[i].call # wCall[w]
          /\ \A i \in DOMAIN sink :
               sink[i].outcome = "Error"
                   => /\ sink[i].kind = "meta"
                      /\ i < Len(sink) => sink[i + 1].kind = "meta"
                      /\ \A j \in DOMAIN sink :
                           j # i => sink[j].call # sink[i].call)
    /\ [][\A w \in Writers :
            (wRes[w].outcome = "Error" /\ wpc[w] = "meta" /\ wpc'[w] # "meta")
                => /\ wpc'[w] = "idle"
                   /\ \/ sink' = sink
                      \/ sink' = Append(sink, Record(wCall[w], "meta", "Error",
                                                     None))]_vars

\* C12 witness: an Error metadata record lies between the run of an earlier
\* call, which ends in a chunk record, and the run of a later call, which
\* has chunk records.
C12_Witness ==
    \E i \in DOMAIN sink :
        /\ 1 < i /\ i + 1 < Len(sink)
        /\ sink[i].outcome = "Error"
        /\ sink[i - 1].kind = "chunk"
        /\ sink[i + 1].kind = "meta"
        /\ sink[i + 2].kind = "chunk"

\* C30 (as claimed): an emitter that owns the sink's lock does nothing but
\* copy bytes to the sink; encoding, compression and the iteration over the
\* chunks are done before the lock is taken.
C30_OnlyCopiesUnderLock == underLock \subseteq {"copy"}

(***************************************************************************)
(* chunkify.rs: Chunks, its two constructors, iter() and the reader.       *)
(* A byte is 0 or 1; a chunk is [data, remaining].                         *)
(***************************************************************************)
Bytes == {0, 1}

Buffers == UNION {[1..n -> Bytes] : n \in 0..MaxLen}

Min(a, b) == IF a < b THEN a ELSE b

\* Sha256 as a streaming digest: update() folds the bytes it is given into
\* the state one by one, so the digest depends on the byte string and on
\* nothing else the caller does not feed it.
HashWidth == 2^16

HashNew == 0

RECURSIVE HashUpdate(_, _)
HashUpdate(h, bytes) ==
    IF bytes = <<>> THEN h
    ELSE HashUpdate((h * 3 + Head(bytes) + 1) % HashWidth, Tail(bytes))

Digest(d) == HashUpdate(HashNew, d)

\* Chunks::new
ChunksNew(d, cs) ==
    [form |-> "Contiguous", id |-> Digest(d), chunk_size |-> cs,
     data |-> d, chunks |-> <<>>]

ChunksErr(e) == [form |-> "Err", err |-> e]

\* from_chunks, line 66: the length test runs over rev().skip(1), that is
\* over every chunk but the last one
SizeMismatch(v, chunk_size) ==
    \E i \in 1..(Len(v) - 1) : Len(v[i].data) # chunk_size

\* from_chunks, lines 70-77: walking backwards, the expected remaining
\* starts at the last chunk's length and grows by chunk_size per chunk
ExpectedRemaining(v, chunk_size, i) ==
    Len(v[Len(v)].data) + (Len(v) - i) * chunk_size

InvalidRemaining(v, chunk_size) ==
    \E i \in 1..Len(v) : v[i].remaining # ExpectedRemaining(v, chunk_size, i)

\* from_chunks, lines 79-81: one hasher, updated with each chunk in order
RECURSIVE HashChunks_WithRemaining(_, _)
HashChunks_WithRemaining(h, v) ==
    IF v = <<>> THEN h
    ELSE HashChunks_WithRemaining(
             HashUpdate(h, Head(v).data \o <<Head(v).remaining % 2>>), Tail(v))

RECURSIVE HashChunks(_, _)
HashChunks(h, v) ==
    IF v = <<>> THEN h
    ELSE HashChunks(HashUpdate(h, Head(v).data), Tail(v))

FromChunks(v) ==
    LET chunk_size == IF v = <<>> THEN 0 ELSE Len(v[1].data)
    IN  IF SizeMismatch(v, chunk_size) THEN ChunksErr("ChunksSizeMismatch")
        ELSE IF InvalidRemaining(v, chunk_size)
             THEN ChunksErr("InvalidRemainingValue")
        ELSE [form |-> "Chunked", id |-> HashChunks(HashNew, v),
              chunk_size |-> chunk_size, data |-> <<>>, chunks |-> v]

\* iter(), contiguous form: the remaining of the chunk with index idx
IterRemaining_AfterChunk(total_len, idx, chunk_size) ==
    total_len - Min(total_len, (idx + 1) * chunk_size)

IterRemaining(total_len, idx, chunk_size) ==
    total_len - Min(total_len, idx * chunk_size)

\* iter(): the chunked form yields what it stores, the contiguous form
\* slices d.chunks(chunk_size)
Iter(c) ==
    IF c.form = "Chunked" THEN c.chunks
    ELSE LET total_len == Len(c.data)
             n == (total_len + c.chunk_size - 1) \div c.chunk_size
         IN  [i \in 1..n |->
                 [data |-> SubSeq(c.data, (i - 1) * c.chunk_size + 1,
                                  Min(total_len, i * c.chunk_size)),
                  remaining |-> IterRemaining(total_len, i - 1, c.chunk_size)]]

\* One step of a reader: Ok(n) with n > 0 keeps it open, Ok(0) is the end
\* of the stream, a failed index, division or assert is a panic.
ReadOk(r, src, from, buf_len) ==
    LET actual_len == Min(Len(src) - from, buf_len)
    IN  [st |-> IF actual_len = 0 THEN "eof" ELSE "open",
         offset |-> r.offset + actual_len,
         out |-> r.out \o SubSeq(src, from + 1, from + actual_len)]

Panic(r) == [r EXCEPT !.st = "panic"]

\* ChunksRead::read
Read(c, r, buf_len) ==
    IF c.form = "Contiguous" THEN ReadOk(r, c.data, r.offset, buf_len)
    ELSE IF c.chunks = <<>> THEN [r EXCEPT !.st = "eof"]
    ELSE IF c.chunk_size = 0 THEN Panic(r)
    ELSE LET idx == r.offset \div c.chunk_size
             chunk_offset == r.offset - c.chunk_size * idx
         IN  IF idx >= Len(c.chunks) THEN Panic(r)
             ELSE IF Len(c.chunks[idx + 1].data) < chunk_offset THEN Panic(r)
             ELSE ReadOk(r, c.chunks[idx + 1].data, chunk_offset, buf_len)

\* The chunk lists a caller can hand to from_chunks: a buffer cut into up
\* to MaxParts chunks, each with any remaining value
RECURSIVE Sum(_)
Sum(ls) == IF ls = <<>> THEN 0 ELSE Head(ls) + Sum(Tail(ls))

Cuts(d) ==
    {ls \in UNION {[1..n -> 0..Len(d)] : n \in 0..MaxParts} : Sum(ls) = Len(d)}

CutAt(d, ls, rs) ==
    [i \in 1..Len(ls) |->
        [data |-> SubSeq(d, Sum(SubSeq(ls, 1, i - 1)) + 1, Sum(SubSeq(ls, 1, i))),
         remaining |-> rs[i]]]

Remainings(ls) == [1..Len(ls) -> 0..MaxLen]

RECURSIVE Concat(_)
Concat(v) == IF v = <<>> THEN <<>> ELSE Head(v).data \o Concat(Tail(v))

\* Chunks::new(data, cs)
New ==
    /\ origin.how = None
    /\ \E d \in Buffers, cs \in 1..MaxChunkSize :
           /\ cks' = ChunksNew(d, cs)
           /\ origin' = [how |-> "new", data |-> d]
    /\ UNCHANGED rd
    /\ UNCHANGED <<cellVars, sinkVars, watchVars, sweepVars>>

\* Chunks::from_chunks(chunks.iter().collect())
Rebuild ==
    /\ origin.how = "new"
    /\ rd.st = None
    /\ cks' = FromChunks(Iter(cks))
    /\ origin' = [how |-> "rebuilt", data |-> origin.data, from |-> cks]
    /\ UNCHANGED rd
    /\ UNCHANGED <<cellVars, sinkVars, watchVars, sweepVars>>

\* Chunks::from_chunks(v) on a chunk list of the caller's own making
FromList ==
    /\ origin.how = None
    /\ \E d \in Buffers :
         \E ls \in Cuts(d) :
           \E rs \in Remainings(ls) :
             /\ cks' = FromChunks(CutAt(d, ls, rs))
             /\ origin' = [how |-> "list", list |-> CutAt(d, ls, rs)]
    /\ UNCHANGED rd
    /\ UNCHANGED <<cellVars, sinkVars, watchVars, sweepVars>>

\* reader()
Reader ==
    /\ cks.form \in {"Contiguous", "Chunked"}
    /\ rd.st = None
    /\ rd' = [st |-> "open", offset |-> 0, out |-> <<>>]
    /\ UNCHANGED <<cks, origin>>
    /\ UNCHANGED <<cellVars, sinkVars, watchVars, sweepVars>>

\* read(buf) as read_to_end and io::copy drive it: again until Ok(0)
ReadStep ==
    /\ rd.st = "open"
    /\ \E buf_len \in 1..MaxBuf : rd' = Read(cks, rd, buf_len)
    /\ UNCHANGED <<cks, origin>>
    /\ UNCHANGED <<cellVars, sinkVars, watchVars, sweepVars>>

ChunkNext == New \/ Rebuild \/ FromList \/ Reader \/ ReadStep

ChunkSpec == SinkInit /\ [][ChunkNext]_vars

(***************************************************************************)
(* Claims about chunkify                                                   *)
(***************************************************************************)
ReadToEnd == rd.st \in {"eof", "panic"}

\* C13: round trip A: a buffer made into Chunks::new(data, cs), iterated,
\* rebuilt with from_chunks and read to the end through reader() ends with
\* end-of-stream and has yielded exactly the original bytes, as reading the
\* contiguous form does, for every buffer (empty and exact multiples of
\* the chunk size included) and every chunk size >= 1.
C13_RoundTripA ==
    /\ origin.how = "rebuilt" => cks.form = "Chunked"
    /\ (origin.how \in {"new", "rebuilt"} /\ ReadToEnd) =>
           (rd.st = "eof" /\ rd.out = origin.data)


\* The chunk-shape invariant: every chunk but the last has the length of
\* the first, and the last is no longer than that
ShapeOk(v) ==
    /\ \A i \in 1..(Len(v) - 1) : Len(v[i].data) = Len(v[1].data)
    /\ v # <<>> => Len(v[Len(v)].data) <= Len(v[1].data)

\* C14: every Chunks value that from_chunks accepts satisfies the
\* chunk-shape invariant (all chunks but the last of equal length, the last
\* no longer), and every chunk list that violates it is rejected with an
\* error.
C14_AcceptedHasShape ==
    origin.how = "list" =>
        /\ cks.form = "Chunked" => ShapeOk(cks.chunks)
        /\ ~ShapeOk(origin.list) => cks.form = "Err"

\* The bytes from chunk i to the end of the list
BytesFrom(v, i) == Len(Concat(SubSeq(v, i, Len(v))))

\* C15: the chunks yielded by iter(), in either form, satisfy
\* chunks[i].remaining - len(chunks[i].data) = chunks[i+1].remaining for
\* every chunk but the last and chunks[N-1].remaining = len of its data; the
\* first remaining is the total length, and a non-empty buffer no longer
\* than one chunk yields one chunk whose remaining, data length and buffer
\* length are equal.
C15_RemainingRecurrence ==
    cks.form \in {"Contiguous", "Chunked"} =>
        LET v == Iter(cks)
            N == Len(v)
        IN  /\ \A i \in 1..(N - 1) :
                   v[i].remaining - Len(v[i].data) = v[i + 1].remaining
            /\ N > 0 => v[N].remaining = Len(v[N].data)
            /\ N > 0 => v[1].remaining = BytesFrom(v, 1)
            /\ cks.form = "Contiguous" => Concat(v) = cks.data
            /\ (/\ cks.form = "Contiguous"
                /\ cks.data # <<>>
                /\ Len(cks.data) <= cks.chunk_size) =>
                   /\ N = 1
                   /\ v[1].remaining = Len(v[1].data)
                   /\ v[1].remaining = Len(cks.data)

\* A contiguous buffer of a full chunk and a shorter one
C15_Witness ==
    /\ cks.form = "Contiguous"
    /\ Len(Iter(cks)) = 2
    /\ Len(Iter(cks)[2].data) < cks.chunk_size

\* C16: the id of a Chunks value built by from_chunks is the id of
\* Chunks::new over the concatenation of its chunk bytes, whatever the chunk
\* size; rebuilding Chunks::new(d, cs) from its own iter() keeps its id.
C16_IdOfByteString ==
    /\ cks.form = "Chunked" =>
           \A cs \in 1..MaxChunkSize :
               cks.id = ChunksNew(Concat(cks.chunks), cs).id
    /\ origin.how = "rebuilt" =>
           /\ cks.form = "Chunked"
           /\ cks.id = origin.from.id

\* A buffer rebuilt from two chunks
C16_Witness ==
    /\ origin.how = "rebuilt"
    /\ cks.form = "Chunked"
    /\ Len(cks.chunks) = 2

\* C17: from_chunks overrides the remaining fields it is given: for a chunk
\* list with valid chunk lengths, whatever its remaining values are, the
\* construction succeeds and iter() later yields the correct remaining
\* values.
C17_RemainingOverridden ==
    (origin.how = "list" /\ ShapeOk(origin.list)) =>
        /\ cks.form = "Chunked"
        /\ \A i \in 1..Len(Iter(cks)) :
               Iter(cks)[i].remaining = BytesFrom(Iter(cks), i)

\* C33: for every Chunks value that from_chunks has accepted (the empty
\* list, a single empty chunk, a last chunk longer than the first and lists
\* of full chunks included), reading its reader() with non-empty buffers
\* never panics (no chunk index out of range, no division by a zero chunk
\* size, no failed assertion), and when it has returned 0 the bytes it has
\* yielded are exactly the concatenation of the chunks' bytes.
C33_ReaderTotal ==
    cks.form = "Chunked" =>
        /\ rd.st # "panic"
        /\ rd.st = "eof" => rd.out = Concat(cks.chunks)

----------------------------------------------------------------------------
(* The cancel signal: a tokio watch channel and the Receivers of one target *)

\* cancel.has_changed().unwrap_or(true) on a Receiver that has seen version
\* s: an error, returned once the Sender is gone, counts as a change
HasChanged(s, v, c) == c \/ s # v

\* cancel.changed() resolves, with Ok on an unseen version and with Err once
\* the Sender is gone; the select! branch `_ = cancel.changed()` takes both
ChangedReady(s, v, c) == s # v \/ c

\* Mutant: changed() is awaited on the stored Receiver, which marks the
\* version as seen for the calls that follow
AfterChanged_Shared(b, v) == v

\* The stored Receiver after a call has awaited changed() on its own clone
AfterChanged(b, v) == b

\* One more observation of the fired signal, as far as they are counted
Seen(n) == IF n < MaxSeen THEN n + 1 ELSE n

\* DebugBunny::stop: cancel_signal.send(())
Send ==
    /\ ~closed
    /\ version < MaxSends
    /\ version' = version + 1
    /\ saw' = NoObservation
    /\ UNCHANGED <<closed, seen, clone, times>>
    /\ UNCHANGED <<cellVars, sinkVars, chunkVars, sweepVars>>

\* The DebugBunny value, and its Sender, is dropped
DropSender ==
    /\ ~closed
    /\ closed' = TRUE
    /\ saw' = NoObservation
    /\ UNCHANGED <<version, seen, clone, times>>
    /\ UNCHANGED <<cellVars, sinkVars, chunkVars, sweepVars>>

\* The driver evaluates its loop predicate
LoopCheck ==
    /\ LET fired == HasChanged(seen["loop"], version, closed)
       IN  /\ saw' = [who |-> "loop", out |-> IF fired THEN "fired" ELSE "armed"]
           /\ times' = IF fired THEN [times EXCEPT !["loop"] = Seen(@)] ELSE times
    /\ UNCHANGED <<version, closed, seen, clone>>
    /\ UNCHANGED <<cellVars, sinkVars, chunkVars, sweepVars>>

\* ScheduledScrapeTarget::call / Timeout::call: self.cancel.clone()
CallStart(o) ==
    /\ clone[o] = -1
    /\ clone' = [clone EXCEPT ![o] = seen[o]]
    /\ saw' = NoObservation
    /\ UNCHANGED <<version, closed, seen, times>>
    /\ UNCHANGED <<cellVars, sinkVars, chunkVars, sweepVars>>

\* A poll of the select! with cancel.changed(): pending, or the call returns
\* Cancelled and drops its clone
Poll(o) ==
    /\ clone[o] >= 0
    /\ IF ChangedReady(clone[o], version, closed)
       THEN /\ saw' = [who |-> o, out |-> "fired"]
            /\ clone' = [clone EXCEPT ![o] = -1]
            /\ seen' = [seen EXCEPT ![o] = AfterChanged(@, version)]
            /\ times' = [times EXCEPT ![o] = Seen(@)]
       ELSE /\ saw' = [who |-> o, out |-> "armed"]
            /\ UNCHANGED <<clone, seen, times>>
    /\ UNCHANGED <<version, closed>>
    /\ UNCHANGED <<cellVars, sinkVars, chunkVars, sweepVars>>

\* The other branch of the select! resolves and the call drops its clone
CallEnd(o) ==
    /\ clone[o] >= 0
    /\ clone' = [clone EXCEPT ![o] = -1]
    /\ saw' = NoObservation
    /\ UNCHANGED <<version, closed, seen, times>>
    /\ UNCHANGED <<cellVars, sinkVars, chunkVars, sweepVars>>

WatchNext ==
    \/ Send
    \/ DropSender
    \/ LoopCheck
    \/ \E o \in Cloners :
        \/ CallStart(o)
        \/ Poll(o)
        \/ CallEnd(o)

WatchSpec == SinkInit /\ [][WatchNext]_vars

\* C26: the cancel signal is level-triggered and one-shot.  The channel's
\* version never decreases and a dropped Sender stays dropped; once a send
\* has been made no observer observes the signal as armed, however often it
\* has observed it as fired before and however many sends follow, and the
\* changed() of every call in flight is ready.
C26_LevelTriggeredOneShot ==
    /\ [](/\ saw.out = "armed" => (version = 0 /\ ~closed)
          /\ saw.out = "fired" => (version > 0 \/ closed)
          /\ \A o \in Cloners :
               (clone[o] >= 0 /\ version > 0) => clone[o] # version)
    /\ [][version' >= version /\ (closed => closed')]_vars

\* C26 witness: after a single send each of the three observers has observed
\* the signal as fired twice, the second time by a call that started after
\* the first had returned.
C26_Witness ==
    /\ version = 1
    /\ ~closed
    /\ \A o \in Observers : times[o] = 2
    /\ saw = [who |-> "race", out |-> "fired"]

----------------------------------------------------------------------------
(* DebugBunny::unscheduled_call: sweeps over all targets *)

\* Mutant: the handles are paired with the configs in reverse
Zip_Reversed(cs, us) ==
    [i \in 1..Min(Len(cs), Len(us)) |->
        [cfg |-> cs[i], target |-> us[(Len(us) + 1) - i]]]

\* self.configs.iter().zip(self.unscheduled_targets.iter())
Zip(cs, us) ==
    [i \in 1..Min(Len(cs), Len(us)) |-> [cfg |-> cs[i], target |-> us[i]]]

\* The (config, handle) pair of a task
Pair(k) == Zip(Configs, UnscheduledTargets)[k[2]]

\* Mutant: the sweep does not wait for its tasks
JoinReady_Detached(st) == TRUE

\* jh.await resolves: the task has run to its end
JoinReady(st) == st = "done"

\* tokio's Mutex of a target's cell
CellAcquire(t, k) ==
    /\ owner' = [owner EXCEPT ![t] = IF @ = NoTask THEN k ELSE @]
    /\ queue' = [queue EXCEPT ![t] = IF owner[t] = NoTask THEN @ ELSE Append(@, k)]

\* Mutant: the call returns with the guard of the cell still alive
CellRelease_Kept(t) == UNCHANGED cellLocks

CellRelease(t) ==
    /\ owner' = [owner EXCEPT ![t] = IF queue[t] = <<>> THEN NoTask ELSE Head(queue[t])]
    /\ queue' = [queue EXCEPT ![t] = IF @ = <<>> THEN @ ELSE Tail(@)]

\* tokio's Mutex of the LogOutputWriter the tasks and the drivers share
WriterAcquire(k) ==
    /\ writer' = IF writer = NoTask THEN k ELSE writer
    /\ wqueue' = IF writer = NoTask THEN wqueue ELSE Append(wqueue, k)

WriterRelease ==
    /\ writer' = IF wqueue = <<>> THEN NoTask ELSE Head(wqueue)
    /\ wqueue' = IF wqueue = <<>> THEN wqueue ELSE Tail(wqueue)

\* unscheduled_call() is called
SweepStart(s) ==
    /\ swp[s].st = "idle"
    /\ swp' = [swp EXCEPT ![s] = [st |-> "spawn", i |-> 1]]
    /\ UNCHANGED <<task, cellLocks, dpc, ucalls, passed, sinkLock>>
    /\ UNCHANGED <<cellVars, sinkVars, chunkVars, watchVars>>

\* One turn of the loop over the zip: a task is spawned for the pair
Spawn(s) ==
    /\ swp[s].st = "spawn"
    /\ LET n == Len(Zip(Configs, UnscheduledTargets))
           i == swp[s].i
       IN  /\ task' = [task EXCEPT ![<<s, i>>] = "new"]
           /\ swp' = [swp EXCEPT ![s] = IF i = n THEN [st |-> "join", i |-> 1]
                                         ELSE [st |-> "spawn", i |-> i + 1]]
    /\ UNCHANGED <<cellLocks, dpc, ucalls, passed, sinkLock>>
    /\ UNCHANGED <<cellVars, sinkVars, chunkVars, watchVars>>

\* One turn of the loop over the join handles
Join(s) ==
    /\ swp[s].st = "join"
    /\ LET n == Len(Zip(Configs, UnscheduledTargets))
           i == swp[s].i
       IN  /\ JoinReady(task[<<s, i>>])
           /\ swp' = [swp EXCEPT ![s] = IF i = n THEN [st |-> "returned", i |-> 1]
                                         ELSE [st |-> "join", i |-> i + 1]]
    /\ UNCHANGED <<task, cellLocks, dpc, ucalls, passed, sinkLock>>
    /\ UNCHANGED <<cellVars, sinkVars, chunkVars, watchVars>>

\* The task's first poll: u.lock().unwrap().call() and the first poll of
\* the call, which asks for the cell's lock
TaskRun(k) ==
    /\ task[k] = "new"
    /\ task' = [task EXCEPT ![k] = "lock"]
    /\ CellAcquire(Pair(k).target, k)
    /\ UNCHANGED <<swp, dpc, ucalls, passed, sinkLock>>
    /\ UNCHANGED <<cellVars, sinkVars, chunkVars, watchVars>>

\* The task's call is granted the cell and invokes the action
TaskGranted(k) ==
    /\ task[k] = "lock"
    /\ owner[Pair(k).target] = k
    /\ task' = [task EXCEPT ![k] = "call"]
    /\ UNCHANGED <<swp, cellLocks, dpc, ucalls, passed, sinkLock>>
    /\ UNCHANGED <<cellVars, sinkVars, chunkVars, watchVars>>

\* The task's call returns its result and releases the cell; process() is
\* called with it and prepares the records on the blocking pool
TaskComplete(k) ==
    /\ task[k] = "call"
    /\ task' = [task EXCEPT ![k] = "process"]
    /\ CellRelease(Pair(k).target)
    /\ ucalls' = [ucalls EXCEPT ![k[1]][Pair(k).target] = @ + 1]
    /\ UNCHANGED <<swp, dpc, passed, sinkLock>>
    /\ UNCHANGED <<cellVars, sinkVars, chunkVars, watchVars>>

\* The task's process() asks for the writer: writer.lock().await
TaskEmit(k) ==
    /\ task[k] = "process"
    /\ task' = [task EXCEPT ![k] = "emit"]
    /\ WriterAcquire(k)
    /\ UNCHANGED <<swp, cellLocks, dpc, ucalls, passed>>
    /\ UNCHANGED <<cellVars, sinkVars, chunkVars, watchVars>>

\* The task's process() has the writer, writes its records and returns,
\* dropping the guard: p.process(&c, f.await).await returns and the task ends
TaskProcessed(k) ==
    /\ task[k] = "emit"
    /\ writer = k
    /\ task' = [task EXCEPT ![k] = "done"]
    /\ passed' = [passed EXCEPT ![k] = Append(@, Pair(k))]
    /\ WriterRelease
    /\ UNCHANGED <<swp, cellLocks, dpc, ucalls>>
    /\ UNCHANGED <<cellVars, sinkVars, chunkVars, watchVars>>

\* The target's driver: it asks for the cell, is granted it and invokes the
\* action, releases the cell with the result, asks for the writer, and
\* writes its records and releases the writer
DriverStep(t) ==
    /\ \/ /\ dpc[t] = "loop"
          /\ dpc' = [dpc EXCEPT ![t] = "lock"]
          /\ CellAcquire(t, DriverOf(t))
          /\ UNCHANGED sinkLock
       \/ /\ dpc[t] = "lock"
          /\ owner[t] = DriverOf(t)
          /\ dpc' = [dpc EXCEPT ![t] = "call"]
          /\ UNCHANGED <<cellLocks, sinkLock>>
       \/ /\ dpc[t] = "call"
          /\ dpc' = [dpc EXCEPT ![t] = "process"]
          /\ CellRelease(t)
          /\ UNCHANGED sinkLock
       \/ /\ dpc[t] = "process"
          /\ dpc' = [dpc EXCEPT ![t] = "emit"]
          /\ WriterAcquire(DriverOf(t))
          /\ UNCHANGED cellLocks
       \/ /\ dpc[t] = "emit"
          /\ writer = DriverOf(t)
          /\ dpc' = [dpc EXCEPT ![t] = "loop"]
          /\ WriterRelease
          /\ UNCHANGED cellLocks
    /\ UNCHANGED <<swp, task, ucalls, passed>>
    /\ UNCHANGED <<cellVars, sinkVars, chunkVars, watchVars>>

SweepNext ==
    \/ \E s \in SweepIds :
        \/ SweepStart(s)
        \/ Spawn(s)
        \/ Join(s)
    \/ \E k \in TaskIds :
        \/ TaskRun(k)
        \/ TaskGranted(k)
        \/ TaskComplete(k)
        \/ TaskEmit(k)
        \/ TaskProcessed(k)
    \/ \E t \in Targets : DriverStep(t)

SweepSpec == SinkInit /\ [][SweepNext]_vars

\* C21: when unscheduled_call() has returned, every target has had exactly
\* one unscheduled call of this sweep completed and each of the sweep's tasks
\* has passed exactly one result to the processor, the result of the target
\* at its position together with the config that target was built from;
\* before that no task passes more than one.  The drivers run and another
\* sweep may overlap.
C21_SweepCoversEveryTarget ==
    /\ \A k \in TaskIds : Len(passed[k]) <= 1
    /\ \A s \in SweepIds :
         swp[s].st = "returned" =>
             \A i \in 1..Len(Configs) :
                 /\ passed[<<s, i>>]
                      = <<[cfg |-> Configs[i], target |-> TargetOf(Configs[i])]>>
                 /\ ucalls[s][TargetOf(Configs[i])] = 1

\* C21 witness: one sweep has returned while a task of the other sweep still
\* waits for a cell that the target's driver owns.
C21_Witness ==
    /\ swp["x"].st = "returned"
    /\ swp["y"].st = "join"
    /\ task[<<"y", 2>>] = "lock"
    /\ owner["t2"] = DriverOf("t2")

\* The drivers' tasks, and the tasks that have or wait for a lock
Drivers == {DriverOf(t) : t \in Targets}

AtCell(k) == \E t \in Targets : owner[t] = k \/ \E i \in 1..Len(queue[t]) : queue[t][i] = k

AtWriter(k) == writer = k \/ \E i \in 1..Len(wqueue) : wqueue[i] = k

\* C32: no task holds a target's cell lock and the processor's lock at the
\* same time, nor holds one of them while it waits for the other: a driver or
\* a task of a sweep has released the cell when its call has returned, before
\* process() asks for the writer.  So the owner of a cell is always a task at
\* its call, which no owner of the writer keeps from finishing, and no cycle
\* of waiting runs through the two locks.
C32_NeverBothLocks ==
    /\ \A k \in TaskIds \cup Drivers : ~(AtCell(k) /\ AtWriter(k))
    /\ \A t \in Targets :
         /\ owner[t] \in TaskIds => task[owner[t]] \in {"lock", "call"}
         /\ owner[t] \in Drivers => dpc[t] \in {"lock", "call"}
    /\ writer \in TaskIds => task[writer] = "emit"

\* C32 witness: the driver of t1 owns the writer and another task waits for
\* it, while a task of a sweep runs t1's action under t1's cell.
C32_Witness ==
    /\ writer = DriverOf("t1")
    /\ wqueue # <<>>
    /\ dpc["t1"] = "emit"
    /\ owner["t1"] = <<"x", 1>>
    /\ task[<<"x", 1>>] = "call"

============================================================================
